---- MODULE Spec2Model ----
(***************************************************************************)
(* A model of lumos' application Context (src/lumos/context.py) and of its *)
(* RPC image distribution layer (src/lumos/net.py).                        *)
(*                                                                         *)
(* Time is counted in ticks of 0.1 s (ImageServer.wait_interval), read     *)
(* from one wall clock `now` that every time.time() call observes.         *)
(***************************************************************************)
EXTENDS Integers, Sequences, FiniteSets, TLC

\* ---------------------------------------------------------------- bounds
\* How many Context objects the model lets the constructor build.
MaxInstances == 3
\* The last tick of the wall clock in the Context specifications.
MaxTime == 3
\* The last tick of the wall clock in the ImageServer specifications.
MaxClock == 21
\* How many distinct frames the input device delivers.
NumImages == 2
\* How many stop() calls the owner of an ImageServer makes.
MaxStops == 2
\* How many log() calls an EventLogger receives.
MaxLogs == 2
\* How many read() calls the loop of image_client() is followed through.
MaxReads == 2

\* ------------------------------------------------------ program constants
\* ImageServer.wait_interval = 0.1 s, in ticks.
wait_interval == 1
\* ImageServer.max_wait_duration = 2.0 s, in ticks.
max_wait_duration == 20

VARIABLES
  now,        \* the wall clock, time.time(), in ticks
  instance,   \* the class attribute Context.instance: 0 when absent, else an object id
  created,    \* number of Context objects whose __init__ returned normally (ids 1..created)
  ctx,        \* the time-control fields of every Context object, by id
  lastCall,   \* the last Context call: what it found, what it did, what it gave back
  original,   \* history: the object the first successful createInstance() returned
  pauseAt,    \* history: the value timeNow had when pause() was called
  pair,       \* history: a pause()/resume() pair bracketed by update() calls
  built,      \* an ImageServer object exists (its __init__ has run)
  image,      \* ImageServer.image: 0 is None (the absent sentinel), else a frame
  isFresh,    \* ImageServer.isFresh
  transport,  \* the RPC server loop: "off", "serving" or "halt_requested"
  serialized, \* whether the transport runs one handler invocation at a time
  rd,         \* every transport handler thread's position inside ImageServer.read()
  mpc,        \* the owning thread's position inside ImageServer.stop()
  stopCalls,  \* number of stop() calls begun
  lastWrite,  \* history: the frame of the latest write() no stop() has followed, else 0
  resolved,   \* history: "never", "yes" (a first read resolved) or "stopped" (stop() since)
  stopDone,   \* history: a stop() has completed and no write() has followed it
  lastRead,   \* the latest reply a read() returned to the transport, and its handler
  dpc,        \* image_server(): the driving loop's position
  exitWhy,    \* image_server(): how the loop was left
  cl,         \* the ImageClient: its position inside read() and what it got
  setup,      \* what the last Context.__init__ computed from its options
  el,         \* the EventLogger: its fields, its file and the calls made on it
  ic          \* image_client(): the driving loop's position and its reads

ctxVars == <<instance, created, ctx, lastCall, original, pauseAt, pair>>
srvVars == <<built, image, isFresh, transport, serialized, rd, mpc, stopCalls,
             lastWrite, resolved, stopDone, lastRead>>
netVars == <<built, image, isFresh, transport, serialized, rd, mpc, stopCalls,
             lastWrite, resolved, stopDone, lastRead, dpc, exitWhy, cl>>
extVars == <<setup, el, ic>>
vars == <<now, instance, created, ctx, lastCall, original, pauseAt, pair,
          built, image, isFresh, transport, serialized, rd, mpc, stopCalls,
          lastWrite, resolved, stopDone, lastRead, dpc, exitWhy, cl,
          setup, el, ic>>

\* ================================================================ Context

CtxIds == 1..MaxInstances

\* The fields of a slot no object occupies yet.
NoCtx == [timeStart |-> 0, timeNow |-> 0, isPaused |-> FALSE, timePaused |-> 0]

\* The largest time origin the model follows (resume() may push timeStart past now).
MaxStart == MaxTime + 2

NoCall == [op |-> "none", pre |-> 0, ranInit |-> FALSE, outcome |-> "none", ret |-> 0]
NoPair == [stage |-> "none", before |-> 0, p |-> 0, r |-> 0, after |-> 0]

\* hasattr(cls, 'instance')
HasInstance == instance # 0

\* Context.resetTime(): the fields it assigns, reading the clock at t.
ResetTimeRec(t) ==
  [timeStart |-> t, timeNow |-> 0, isPaused |-> FALSE, timePaused |-> t]

\* A constructor that goes on with an empty configuration when the file
\* cannot be opened.
CtorOutcomeLenient(cfgOpens) ==
  IF HasInstance THEN "SingletonViolation" ELSE "ok"

\* How Context.__init__ ends for the given class state: the singleton test comes
\* first, then the configuration file is opened (IOError is re-raised).
CtorOutcome(cfgOpens) ==
  IF HasInstance THEN "SingletonViolation"
  ELSE IF ~cfgOpens THEN "IOError"
  ELSE "ok"

\* A direct call Context(...): __init__ alone. It never assigns Context.instance.
Construct(cfgOpens) ==
  LET out == CtorOutcome(cfgOpens) IN
  /\ out = "ok" => created < MaxInstances
  /\ IF out = "ok"
       THEN /\ created' = created + 1
            /\ ctx' = [ctx EXCEPT ![created + 1] = ResetTimeRec(now)]
            /\ lastCall' = [op |-> "Context", pre |-> instance, ranInit |-> TRUE,
                            outcome |-> "ok", ret |-> created + 1]
       ELSE /\ UNCHANGED <<created, ctx>>
            /\ lastCall' = [op |-> "Context", pre |-> instance, ranInit |-> TRUE,
                            outcome |-> out, ret |-> 0]
  /\ UNCHANGED <<now, instance, original, pauseAt, pair>>

\* A createInstance() that constructs on every call (no hasattr test).
CreateInstanceAlways(cfgOpens) ==
  LET out == CtorOutcome(cfgOpens) IN
  /\ out = "ok" => created < MaxInstances
  /\ IF out = "ok"
       THEN /\ created' = created + 1
            /\ ctx' = [ctx EXCEPT ![created + 1] = ResetTimeRec(now)]
            /\ instance' = created + 1
            /\ original' = IF original = 0 THEN created + 1 ELSE original
            /\ lastCall' = [op |-> "createInstance", pre |-> instance, ranInit |-> TRUE,
                            outcome |-> "ok", ret |-> created + 1]
       ELSE /\ UNCHANGED <<created, ctx, instance, original>>
            /\ lastCall' = [op |-> "createInstance", pre |-> instance, ranInit |-> TRUE,
                            outcome |-> out, ret |-> 0]
  /\ UNCHANGED <<now, pauseAt, pair>>

\* Context.createInstance(): construct if the class has no instance attribute,
\* else print a warning; return cls.instance. A raising __init__ propagates
\* before the assignment.
CreateInstance(cfgOpens) ==
  IF ~HasInstance
    THEN LET out == CtorOutcome(cfgOpens) IN
         /\ out = "ok" => created < MaxInstances
         /\ IF out = "ok"
              THEN /\ created' = created + 1
                   /\ ctx' = [ctx EXCEPT ![created + 1] = ResetTimeRec(now)]
                   /\ instance' = created + 1
                   /\ original' = IF original = 0 THEN created + 1 ELSE original
                   /\ lastCall' = [op |-> "createInstance", pre |-> instance,
                                   ranInit |-> TRUE, outcome |-> "ok", ret |-> created + 1]
              ELSE /\ UNCHANGED <<created, ctx, instance, original>>
                   /\ lastCall' = [op |-> "createInstance", pre |-> instance,
                                   ranInit |-> TRUE, outcome |-> out, ret |-> 0]
         /\ UNCHANGED <<now, pauseAt, pair>>
    ELSE /\ lastCall' = [op |-> "createInstance", pre |-> instance, ranInit |-> FALSE,
                         outcome |-> "ok", ret |-> instance]
         /\ UNCHANGED <<now, instance, created, ctx, original, pauseAt, pair>>

\* Context.getInstance(): cls.instance, or an exception when the attribute is absent.
GetInstance ==
  /\ lastCall' = IF HasInstance
                   THEN [op |-> "getInstance", pre |-> instance, ranInit |-> FALSE,
                         outcome |-> "ok", ret |-> instance]
                   ELSE [op |-> "getInstance", pre |-> instance, ranInit |-> FALSE,
                         outcome |-> "NotInitialized", ret |-> 0]
  /\ UNCHANGED <<now, instance, created, ctx, original, pauseAt, pair>>

\* The wall clock advances (Context specifications).
Tick ==
  /\ now < MaxTime
  /\ now' = now + 1
  /\ UNCHANGED ctxVars

\* ---------------------------------------------------------- time control
\* Each operation reads the clock once (t) and rewrites the fields of one object (c).

\* Context.update(): timeNow = time.time() - timeStart, whatever isPaused is.
UpdateRec(c, t) == [c EXCEPT !.timeNow = t - c.timeStart]

\* Context.pause(): timePaused = time.time(); isPaused = True.
PauseRec(c, t) == [c EXCEPT !.timePaused = t, !.isPaused = TRUE]

\* A resume() that clears the flag and leaves the time origin where it was.
ResumeNoShift(c, t) == [c EXCEPT !.isPaused = FALSE]

\* Context.resume(): timeStart += time.time() - timePaused; isPaused = False.
ResumeRec(c, t) ==
  [c EXCEPT !.timeStart = c.timeStart + (t - c.timePaused), !.isPaused = FALSE]

TimeCall(name) ==
  [op |-> name, pre |-> instance, ranInit |-> FALSE, outcome |-> "ok", ret |-> 0]

\* context.resetTime() on the registered Context.
ResetTime ==
  /\ HasInstance
  /\ ctx' = [ctx EXCEPT ![instance] = ResetTimeRec(now)]
  /\ lastCall' = TimeCall("resetTime")
  /\ pair' = NoPair
  /\ pauseAt' = 0
  /\ UNCHANGED <<now, instance, created, original>>

\* context.update() on the registered Context. The history `pair` follows one
\* update(); pause(); ...; resume(); update() sequence whose outer calls read
\* the same clock value as the pause() and the resume() next to them.
Update ==
  /\ HasInstance
  /\ LET c == UpdateRec(ctx[instance], now) IN
     /\ ctx' = [ctx EXCEPT ![instance] = c]
     /\ pair' = IF pair.stage = "resumed" /\ pair.r = now
                   THEN [pair EXCEPT !.stage = "measured", !.after = c.timeNow]
                 ELSE IF c.isPaused
                   THEN pair
                 ELSE [stage |-> "armed", before |-> c.timeNow, p |-> now,
                       r |-> 0, after |-> 0]
  /\ lastCall' = TimeCall("update")
  /\ UNCHANGED <<now, instance, created, original, pauseAt>>

\* context.pause() on the registered Context.
Pause ==
  /\ HasInstance
  /\ ctx' = [ctx EXCEPT ![instance] = PauseRec(ctx[instance], now)]
  /\ pauseAt' = ctx[instance].timeNow
  /\ pair' = IF pair.stage = "armed" /\ pair.p = now /\ ~ctx[instance].isPaused
                THEN [pair EXCEPT !.stage = "paused"]
                ELSE NoPair
  /\ lastCall' = TimeCall("pause")
  /\ UNCHANGED <<now, instance, created, original>>

\* context.resume() on the registered Context (callable whether paused or not).
Resume ==
  /\ HasInstance
  /\ LET c == ResumeRec(ctx[instance], now) IN
     /\ c.timeStart <= MaxStart
     /\ ctx' = [ctx EXCEPT ![instance] = c]
  /\ pair' = IF pair.stage = "paused"
                THEN [pair EXCEPT !.stage = "resumed", !.r = now]
                ELSE NoPair
  /\ lastCall' = TimeCall("resume")
  /\ UNCHANGED <<now, instance, created, original, pauseAt>>

\* ============================================================ ImageServer

\* The transport's handler threads.
Handlers == {"h1", "h2"}

\* The frames write() is given (never None).
Images == 1..NumImages

\* A handler thread outside read(). Inside, `waited` tells whether the call has
\* slept in the wait loop and `clean` whether a write() preceded the call with
\* no stop() since.
IdleRead == [pc |-> "idle", waitStarted |-> 0, sleepLeft |-> 0, waited |-> FALSE,
             byClient |-> FALSE, clean |-> FALSE]

NoRead == [h |-> "none", reply |-> 0]

\* OutputDevice.__init__: no frame is stored until write() is called.
InitialImage == 0

\* ImageServer(port, start_server): OutputDevice.__init__, isFresh = True, the
\* object is exported and, if asked for, the server thread started.
ServerInit(start_server) ==
  /\ ~built
  /\ built' = TRUE
  /\ image' = InitialImage
  /\ isFresh' = TRUE
  /\ transport' = IF start_server THEN "serving" ELSE "off"
  /\ UNCHANGED <<now, serialized, rd, mpc, stopCalls, lastWrite,
                 resolved, stopDone, lastRead>>

\* imageServer.write(img), by the owning thread: the frame replaces the stored one.
Write(img) ==
  /\ built
  /\ mpc = "idle"
  /\ image' = img
  /\ lastWrite' = img
  /\ stopDone' = FALSE
  /\ UNCHANGED <<now, built, isFresh, transport, serialized, rd, mpc, stopCalls,
                 resolved, lastRead>>

\* A stop() that leaves the stored frame in place.
StopKeepsImage == image

\* stop(), first statement: the value self.image is given.
StopImage == 0

\* stop() begins: self.image = None.
StopBegin ==
  /\ built
  /\ mpc = "idle"
  /\ stopCalls < MaxStops
  /\ stopCalls' = stopCalls + 1
  /\ image' = StopImage
  /\ lastWrite' = 0
  /\ rd' = [h \in Handlers |-> [rd[h] EXCEPT !.clean = FALSE]]
  /\ mpc' = "stop_fresh"
  /\ UNCHANGED <<now, built, isFresh, transport, serialized, resolved,
                 stopDone, lastRead>>

\* stop(), second statement: self.isFresh = True.
StopFresh ==
  /\ mpc = "stop_fresh"
  /\ isFresh' = TRUE
  /\ resolved' = IF resolved = "yes" THEN "stopped" ELSE resolved
  /\ mpc' = "stop_halt"
  /\ UNCHANGED <<now, built, image, transport, serialized, rd, stopCalls, lastWrite,
                 stopDone, lastRead>>

\* stop(), last statement: rpc.stop_server().
StopHalt ==
  /\ mpc = "stop_halt"
  /\ transport' = "halt_requested"
  /\ stopDone' = TRUE
  /\ mpc' = "idle"
  /\ UNCHANGED <<now, built, image, isFresh, serialized, rd, stopCalls, lastWrite,
                 resolved, lastRead>>

\* A wait started now ends before the model's clock does.
WaitFits == now + max_wait_duration + wait_interval - 1 <= MaxClock

\* The transport may hand handler h a call: always, unless it serializes calls
\* and another handler is still inside one.
MayDispatch(h) ==
  /\ built
  /\ rd[h].pc = "idle"
  /\ serialized => \A g \in Handlers : rd[g].pc = "idle"

\* A read() that holds a lock of the server from its entry to its return,
\* shared with stop().
ReadEnterLocked(h, client) ==
  /\ MayDispatch(h)
  /\ mpc = "idle"
  /\ \A g \in Handlers : rd[g].pc = "idle"
  /\ IF isFresh
       THEN /\ WaitFits
            /\ rd' = [rd EXCEPT ![h] = [IdleRead EXCEPT !.pc = "loop",
                        !.waitStarted = now, !.byClient = client,
                        !.clean = (lastWrite # 0)]]
       ELSE rd' = [rd EXCEPT ![h] = [IdleRead EXCEPT !.pc = "ret",
                        !.byClient = client,
                        !.clean = (lastWrite # 0)]]

\* read() is entered: `if self.isFresh` and, when it holds, waitStarted = time.time().
ReadEnter(h, client) ==
  /\ MayDispatch(h)
  /\ IF isFresh
       THEN /\ WaitFits
            /\ rd' = [rd EXCEPT ![h] = [IdleRead EXCEPT !.pc = "loop",
                        !.waitStarted = now, !.byClient = client,
                        !.clean = (lastWrite # 0)]]
       ELSE rd' = [rd EXCEPT ![h] = [IdleRead EXCEPT !.pc = "ret",
                        !.byClient = client,
                        !.clean = (lastWrite # 0)]]

\* A call from some remote client other than the modelled ImageClient.
ReadBegin(h) ==
  /\ ReadEnter(h, FALSE)
  /\ UNCHANGED <<now, built, image, isFresh, transport, serialized, mpc, stopCalls,
                 lastWrite, resolved, stopDone, lastRead>>

\* A wait loop bounded by nothing but the arrival of a frame.
KeepWaitingNoBound(h) == image = 0

\* A wait loop that sits out the whole wait whether or not a frame arrived.
KeepWaitingWholeWait(h) == (now - rd[h].waitStarted) < max_wait_duration

\* A wait loop that sleeps once before it looks at the stored frame.
KeepWaitingSleepFirst(h) ==
  \/ ~rd[h].waited
  \/ image = 0 /\ (now - rd[h].waitStarted) < max_wait_duration

\* while self.image is None and (time.time() - waitStarted) < self.max_wait_duration
KeepWaiting(h) ==
  image = 0 /\ (now - rd[h].waitStarted) < max_wait_duration

\* The loop test, on entry and whenever time.sleep() has returned (at least
\* wait_interval after it began); when the test holds,
\* time.sleep(self.wait_interval) begins.
ReadLoop(h) ==
  /\ \/ rd[h].pc = "loop"
     \/ rd[h].pc = "sleep" /\ rd[h].sleepLeft = 0
  /\ rd' = [rd EXCEPT ![h] =
              IF KeepWaiting(h)
                THEN [@ EXCEPT !.pc = "sleep", !.sleepLeft = wait_interval,
                               !.waited = TRUE]
                ELSE [@ EXCEPT !.pc = "clear", !.waitStarted = 0]]
  /\ UNCHANGED <<now, built, image, isFresh, transport, serialized, mpc, stopCalls,
                 lastWrite, resolved, stopDone, lastRead>>

\* A read() that leaves the flag as it found it.
FreshAfterReadKept == isFresh

\* The value read() gives self.isFresh after the wait.
FreshAfterRead == FALSE

\* self.isFresh = False
ReadClear(h) ==
  /\ rd[h].pc = "clear"
  /\ isFresh' = FreshAfterRead
  /\ resolved' = "yes"
  /\ rd' = [rd EXCEPT ![h].pc = "ret"]
  /\ UNCHANGED <<now, built, image, transport, serialized, mpc, stopCalls,
                 lastWrite, stopDone, lastRead>>

\* What a returning read() hands the transport: self.image.
Returned(h) == [h |-> h, reply |-> image]

\* return self.image, for a call that was not the ImageClient's.
ReadReturn(h) ==
  /\ rd[h].pc = "ret"
  /\ ~rd[h].byClient
  /\ lastRead' = Returned(h)
  /\ rd' = [rd EXCEPT ![h] = IdleRead]
  /\ UNCHANGED <<now, built, image, isFresh, transport, serialized, mpc, stopCalls,
                 lastWrite, resolved, stopDone>>

\* Wall-clock time passes, and with it the sleep of every sleeping handler.
\* The server looks at the clock only inside the wait of read(), so the model
\* lets it advance only while a read is timing a wait.
Elapse ==
  /\ now < MaxClock
  /\ \E h \in Handlers : rd[h].pc \in {"loop", "sleep"}
  /\ now' = now + 1
  /\ rd' = [h \in Handlers |->
              IF rd[h].sleepLeft > 0 THEN [rd[h] EXCEPT !.sleepLeft = @ - 1] ELSE rd[h]]
  /\ UNCHANGED <<built, image, isFresh, transport, serialized, mpc, stopCalls,
                 lastWrite, resolved, stopDone, lastRead>>

\* The steps of handler thread h inside read().
ReadStep(h) ==
  \/ ReadLoop(h)
  \/ ReadClear(h)
  \/ ReadReturn(h)

\* ----------------------------------------------------------- image_server

\* A driving loop without the managed scope: an error raised inside the loop
\* leaves the function at once.
AfterLeaveUnmanaged(why) == IF why = "error" THEN "left" ELSE "exit"

\* Where control goes when the loop of image_server() is left: every way out
\* of `with ImageServer(...) as imageServer` runs __exit__.
AfterLeave(why) == "exit"

\* image_server(inputDevice, port, ...): with no input device given,
\* Context.createInstance() comes first (a raising constructor ends the
\* function there); then ImageServer(...) is built and its scope entered.
DriverStart(given, cfgOpens, start_server) ==
  /\ dpc = "start"
  /\ IF given THEN UNCHANGED ctxVars ELSE CreateInstance(cfgOpens)
  /\ IF given \/ lastCall'.outcome = "ok"
       THEN /\ ServerInit(start_server)
            /\ dpc' = "loop"
            /\ UNCHANGED exitWhy
       ELSE /\ dpc' = "aborted"
            /\ exitWhy' = "createInstance"
            /\ UNCHANGED <<now, srvVars>>
  /\ UNCHANGED <<cl, extVars>>

\* One round of the loop: inputDevice.read() gave a frame and
\* imageServer.write(inputDevice.image) stores it.
DriverWrite(img) ==
  /\ dpc = "loop"
  /\ Write(img)
  /\ UNCHANGED <<ctxVars, dpc, exitWhy, cl, extVars>>

\* The loop is left: inputDevice.read() gave nothing ("exhausted"), a
\* KeyboardInterrupt was caught ("interrupt"), or another exception was raised
\* by inputDevice.read() or write() ("error").
DriverLeave(why) ==
  /\ dpc = "loop"
  /\ dpc' = AfterLeave(why)
  /\ exitWhy' = why
  /\ UNCHANGED <<now, ctxVars, srvVars, cl, extVars>>

\* ImageServer.__exit__: self.stop() begins.
DriverExit ==
  /\ dpc = "exit"
  /\ StopBegin
  /\ dpc' = "stopping"
  /\ UNCHANGED <<ctxVars, exitWhy, cl, extVars>>

\* stop() has returned: the scope is left (with the exception, if one was raised).
DriverLeft ==
  /\ dpc = "stopping"
  /\ mpc = "idle"
  /\ dpc' = "left"
  /\ UNCHANGED <<now, ctxVars, srvVars, exitWhy, cl, extVars>>

\* ============================================================ ImageClient

NoReply == [kind |-> "none", img |-> 0]

IdleClient == [pc |-> "idle", via |-> "none", done |-> FALSE, calls |-> 0,
               reply |-> NoReply, ok |-> FALSE, img |-> 0, held |-> 0]

\* What the transport delivers for the value a handler returned: an image
\* payload for a frame, the absent sentinel for None.
Payload(x) == IF x = 0 THEN NoReply ELSE [kind |-> "image", img |-> x]

\* A read() that takes every reply for a frame.
ReadResultAlwaysOk(reply) == [ok |-> TRUE, img |-> reply.img]

\* ImageClient.read() after self.call(): (True, image) for an ndarray reply,
\* (False, None) for anything else.
ReadResult(reply) ==
  IF reply.kind = "image" THEN [ok |-> TRUE, img |-> reply.img]
                          ELSE [ok |-> FALSE, img |-> 0]

\* imageClient.read() begins: self.call(self.read_call) sends one request,
\* which the transport hands to handler h.
ClientCall(h) ==
  /\ cl.pc = "idle"
  /\ ReadEnter(h, TRUE)
  /\ cl' = [IdleClient EXCEPT !.pc = "calling", !.via = h, !.calls = 1]
  /\ UNCHANGED <<now, built, image, isFresh, transport, serialized, mpc, stopCalls,
                 lastWrite, resolved, stopDone, lastRead>>

\* imageClient.read() begins and the request reaches no handler.
ClientCallLost ==
  /\ cl.pc = "idle"
  /\ cl' = [IdleClient EXCEPT !.pc = "calling", !.calls = 1]
  /\ UNCHANGED <<now, srvVars>>

\* The handler serving the ImageClient's call returns self.image; if the
\* client still waits for it, call() returns the reply and read() its result.
ClientReply(h) ==
  /\ rd[h].pc = "ret"
  /\ rd[h].byClient
  /\ lastRead' = Returned(h)
  /\ rd' = [rd EXCEPT ![h] = IdleRead]
  /\ cl' = IF cl.pc = "calling" /\ cl.via = h
             THEN LET reply == Payload(lastRead'.reply)
                      res == ReadResult(reply) IN
                  [cl EXCEPT !.pc = "idle", !.via = "none", !.done = TRUE,
                             !.reply = reply, !.ok = res.ok, !.img = res.img,
                             !.held = image]
             ELSE cl
  /\ UNCHANGED <<now, built, image, isFresh, transport, serialized, mpc, stopCalls,
                 lastWrite, resolved, stopDone>>

\* No reply within image_recv_timeout: call() gives up and read() returns.
ClientTimeout ==
  /\ cl.pc = "calling"
  /\ LET reply == [kind |-> "timeout", img |-> 0]
         res == ReadResult(reply) IN
     cl' = [cl EXCEPT !.pc = "idle", !.via = "none", !.done = TRUE,
                      !.reply = reply, !.ok = res.ok, !.img = res.img, !.held = 0]
  /\ UNCHANGED <<now, srvVars>>

\* ============================================================ EventLogger
\* Text is a sequence of character codes; the stream `out` holds text.

\* "\n", the terminator print() writes after the last field.
NL == 10

\* EventLogger.default_sep = "\t".
default_sep == 9

\* The tags and messages log() is given: a word, a word with a separator in
\* it, and two words on two lines.
Texts == {<<97>>, <<97, 9, 98>>, <<97, 10, 98>>}

\* str() of a clock reading: its decimal digits.
RECURSIVE Stamp(_)
Stamp(t) == IF t < 10 THEN <<48 + t>> ELSE Stamp(t \div 10) \o <<48 + (t % 10)>>

\* What print(tag, time.time(), msg, sep=sep, file=out) writes.
PrintLine(tag, t, msg, sep) == tag \o <<sep>> \o Stamp(t) \o <<sep>> \o msg \o <<NL>>

\* The lines of a text: the runs of characters its terminators end
\* (an unterminated rest counts as a last line).
RECURSIVE LinesFrom(_, _)
LinesFrom(text, line) ==
  IF text = <<>> THEN (IF line = <<>> THEN <<>> ELSE <<line>>)
  ELSE IF Head(text) = NL THEN <<line>> \o LinesFrom(Tail(text), <<>>)
  ELSE LinesFrom(Tail(text), Append(line, Head(text)))

Lines(text) == LinesFrom(text, <<>>)

\* No EventLogger exists. `out` is "unset" while the attribute self.out does
\* not exist, else "open" or "closed"; `disk` is what the file holds and
\* `pending` what the stream still buffers; `started` tells whether
\* __init__ started the transport's server thread and `threadUp` whether it
\* still runs; `errorLogged` whether __init__ caught and logged a failure; `calls` lists the log() calls made before
\* the first stop(); `last` is how the latest call on the object ended and
\* `lastStop` how the latest stop() ended.
NoLogger == [built |-> FALSE, out |-> "unset", sep |-> default_sep,
             exported |-> FALSE, serverStarted |-> FALSE, started |-> FALSE,
             threadUp |-> FALSE,
             errorLogged |-> FALSE, disk |-> <<>>, pending |-> <<>>,
             calls |-> <<>>, stops |-> 0, halts |-> 0, last |-> "none",
             lastStop |-> "none"]

\* A constructor that sets the flag as soon as a server was asked for.
ServerStartedEager(rpc_export, start_server, openOk, exportOk, startOk) ==
  rpc_export /\ start_server

\* self.serverStarted after __init__: False unless the statement after
\* rpc.start_server_thread() was reached, inside the try block.
ServerStarted(rpc_export, start_server, openOk, exportOk, startOk) ==
  openOk /\ rpc_export /\ exportOk /\ start_server /\ startOk

\* A try block that catches the failure of open() only.
InitEscapesTransport(rpc_export, start_server, openOk, exportOk, startOk) ==
  openOk /\ rpc_export /\ (~exportOk \/ (start_server /\ ~startOk))

\* Whether an exception leaves __init__: `except Exception` catches whatever
\* open(), rpc.export() or rpc.start_server_thread() raise.
InitEscapes(rpc_export, start_server, openOk, exportOk, startOk) == FALSE

\* EventLogger(filename, sep, port, rpc_export, start_server): open the file
\* for writing, export the object, start the server thread; an exception
\* raised by any of the three is caught and logged, and __init__ returns.
LoggerInit(rpc_export, start_server, openOk, exportOk, startOk) ==
  /\ ~el.built
  /\ el.last # "raised"
  /\ el' = IF InitEscapes(rpc_export, start_server, openOk, exportOk, startOk)
             THEN [NoLogger EXCEPT !.last = "raised"]
             ELSE [NoLogger EXCEPT
              !.built = TRUE,
              !.out = IF openOk THEN "open" ELSE "unset",
              !.exported = openOk /\ rpc_export /\ exportOk,
              !.started = openOk /\ rpc_export /\ exportOk /\ start_server /\ startOk,
              !.threadUp = openOk /\ rpc_export /\ exportOk /\ start_server /\ startOk,
              !.serverStarted =
                 ServerStarted(rpc_export, start_server, openOk, exportOk, startOk),
              !.errorLogged = \/ ~openOk
                              \/ rpc_export /\ ~exportOk
                              \/ rpc_export /\ start_server /\ ~startOk,
              !.last = "returned"]
  /\ UNCHANGED <<now, ctxVars, netVars, setup, ic>>

\* eventLogger.log(tag, msg): one print() to self.out. Without the attribute
\* the call raises AttributeError, on a closed stream ValueError.
Log(tag, msg) ==
  /\ el.built
  /\ Len(el.calls) < MaxLogs
  /\ el' = IF el.out = "open"
             THEN [el EXCEPT !.pending = @ \o PrintLine(tag, now, msg, el.sep),
                             !.calls = Append(@, [tag |-> tag, t |-> now, msg |-> msg]),
                             !.last = "ok"]
           ELSE IF el.out = "unset"
             THEN [el EXCEPT !.last = "AttributeError",
                             !.calls = IF el.stops = 0
                                         THEN Append(@, [tag |-> tag, t |-> now, msg |-> msg])
                                         ELSE @]
           ELSE [el EXCEPT !.last = "ValueError"]
  /\ UNCHANGED <<now, ctxVars, netVars, setup, ic>>

\* The stream writes what it buffers to the file.
LoggerFlush ==
  /\ el.out = "open"
  /\ el.pending # <<>>
  /\ el' = [el EXCEPT !.disk = @ \o el.pending, !.pending = <<>>]
  /\ UNCHANGED <<now, ctxVars, netVars, setup, ic>>

\* eventLogger.stop(stop_server): close the stream (flushing it; closing a
\* closed stream does nothing), then halt the transport if this object
\* started it. Without the attribute self.out the first test raises.
LoggerStop(stop_server) ==
  /\ el.built
  /\ el.stops < MaxStops
  /\ el' = IF el.out = "unset"
             THEN [el EXCEPT !.stops = @ + 1, !.last = "AttributeError",
                             !.lastStop = "AttributeError"]
             ELSE [el EXCEPT !.stops = @ + 1,
                             !.lastStop = "ok",
                             !.out = "closed",
                             !.disk = @ \o el.pending,
                             !.pending = <<>>,
                             !.halts = IF stop_server /\ el.serverStarted THEN @ + 1 ELSE @,
                             !.threadUp = IF stop_server /\ el.serverStarted THEN FALSE ELSE @,
                             !.last = "ok"]
  /\ UNCHANGED <<now, ctxVars, netVars, setup, ic>>

\* ========================================================== Context.__init__
\* What __init__ computes from its options once the configuration is loaded.

\* The input-source strings, by what the tests applied to them answer:
\* int(s) succeeds; isRemote(s) recognises an endpoint (0: it does not, else
\* the parsed endpoint); what os.path finds at the absolute path of s;
\* isImageFile(s) and isVideoFile(s).
Sources ==
  [int : BOOLEAN, endpoint : 0..1, at : {"nothing", "dir", "file"},
   img : BOOLEAN, vid : BOOLEAN]

\* The states of the logging configuration file logging.yaml: it cannot be
\* opened, it does not parse, it lacks handlers.file_handler, dictConfig()
\* rejects it (invalid target), or it loads and applies.
LogConfigs == {"missing", "malformed", "no_file_handler", "invalid_target", "ok"}

\* --log: 'none', 'auto' or a path.
LogDestinations == {"none", "auto", "path"}

\* The options and surroundings of one construction.
Options ==
  [cfgOpens : BOOLEAN, log_file : LogDestinations, logConfig : LogConfigs,
   src : Sources, rpc : BOOLEAN]

NoFlags == [isDir |-> FALSE, isImage |-> FALSE, isVideo |-> FALSE,
            isRemote |-> FALSE, remoteEndpoint |-> 0,
            as |-> "none", fsCalls |-> {}, warned |-> FALSE]

\* The file-type tests on an existing non-directory: isImageFile(), else
\* isVideoFile(), else a warning.
FileFlags(src) ==
  IF src.img THEN [NoFlags EXCEPT !.isImage = TRUE]
  ELSE IF src.vid THEN [NoFlags EXCEPT !.isVideo = TRUE]
  ELSE [NoFlags EXCEPT !.warned = TRUE]

\* A fallback that goes by the name alone, without os.path.exists().
PathFlagsUnchecked(src) ==
  IF src.at = "dir"
    THEN [NoFlags EXCEPT !.as = "path", !.isDir = TRUE, !.fsCalls = {"abspath", "isdir"}]
    ELSE [FileFlags(src) EXCEPT !.as = "path", !.fsCalls = {"abspath", "isdir"}]

\* The filesystem fallback: abspath(), exists(), isdir(), then the file type.
PathFlags(src) ==
  IF src.at = "nothing"
    THEN [NoFlags EXCEPT !.as = "path", !.warned = TRUE,
                         !.fsCalls = {"abspath", "exists"}]
  ELSE IF src.at = "dir"
    THEN [NoFlags EXCEPT !.as = "path", !.isDir = TRUE,
                         !.fsCalls = {"abspath", "exists", "isdir"}]
  ELSE [FileFlags(src) EXCEPT !.as = "path",
                              !.fsCalls = {"abspath", "exists", "isdir"}]

\* A classification that looks at the filesystem before anything else.
ClassifyPathFirst(src) ==
  IF src.at # "nothing" THEN PathFlags(src)
  ELSE IF src.int THEN [NoFlags EXCEPT !.as = "device"]
  ELSE IF src.endpoint # 0
    THEN [NoFlags EXCEPT !.as = "endpoint", !.isRemote = TRUE,
                         !.remoteEndpoint = src.endpoint]
  ELSE PathFlags(src)

\* The input-source block of __init__: int() first; on ValueError isRemote();
\* only when that fails the filesystem.
Classify(src) ==
  IF src.int THEN [NoFlags EXCEPT !.as = "device"]
  ELSE IF src.endpoint # 0
    THEN [NoFlags EXCEPT !.as = "endpoint", !.isRemote = TRUE,
                         !.remoteEndpoint = src.endpoint]
  ELSE PathFlags(src)

\* A setupLogging() that catches IOError only.
SetupLoggingIOErrorOnly(log_file, logConfig) ==
  IF log_file = "none" THEN [handler |-> "null", opened |-> FALSE, raised |-> FALSE]
  ELSE IF logConfig = "missing" THEN [handler |-> "null", opened |-> TRUE, raised |-> FALSE]
  ELSE IF logConfig = "ok" THEN [handler |-> "configured", opened |-> TRUE, raised |-> FALSE]
  ELSE [handler |-> "unset", opened |-> TRUE, raised |-> TRUE]

\* Context.setupLogging(): with --log none a NullHandler and nothing else;
\* otherwise logging.yaml is opened, loaded, given the file name and applied,
\* and an IOError or any other Exception on the way adds a NullHandler and
\* returns. `opened` tells whether open() was called on the file.
SetupLogging(log_file, logConfig) ==
  IF log_file = "none" THEN [handler |-> "null", opened |-> FALSE, raised |-> FALSE]
  ELSE IF logConfig = "ok" THEN [handler |-> "configured", opened |-> TRUE, raised |-> FALSE]
  ELSE [handler |-> "null", opened |-> TRUE, raised |-> FALSE]

\* `--rpc`: rpc.start_server_thread() starts the background server.
StartRpc(requested) == requested

NoOptions ==
  [cfgOpens |-> TRUE, log_file |-> "none", logConfig |-> "ok",
   src |-> [int |-> TRUE, endpoint |-> 0, at |-> "nothing", img |-> FALSE, vid |-> FALSE],
   rpc |-> FALSE]

\* Nothing was constructed yet. `by` is the call that ran __init__ last and
\* `reached` the last part of __init__ that ran: "singleton", "config",
\* "logging" or "end".
NoSetup == [o |-> NoOptions, by |-> "none", reached |-> "none", raised |-> FALSE,
            log |-> [handler |-> "unset", opened |-> FALSE, raised |-> FALSE],
            flags |-> NoFlags, isRPCEnabled |-> FALSE]

\* The body of __init__ for options o, given how its first two parts ended.
InitBody(o, out) ==
  IF out = "SingletonViolation"
    THEN [NoSetup EXCEPT !.o = o, !.reached = "singleton", !.raised = TRUE]
  ELSE IF out = "IOError"
    THEN [NoSetup EXCEPT !.o = o, !.reached = "config", !.raised = TRUE]
  ELSE LET log == SetupLogging(o.log_file, o.logConfig) IN
       IF log.raised
         THEN [NoSetup EXCEPT !.o = o, !.reached = "logging", !.raised = TRUE, !.log = log]
         ELSE [o |-> o, by |-> "none", reached |-> "end", raised |-> FALSE, log |-> log,
               flags |-> Classify(o.src), isRPCEnabled |-> StartRpc(o.rpc)]

\* How __init__ ends for options o.
InitOutcome(o) ==
  LET out == CtorOutcome(o.cfgOpens) IN
  IF out = "ok" /\ InitBody(o, out).raised THEN "Error" ELSE out

\* One run of the hosting program: every construction it attempts sees the
\* same command line and the same files, except that the configuration file
\* may appear or vanish between two attempts.
RunOptions ==
  IF setup.reached = "none" THEN Options
  ELSE {[setup.o EXCEPT !.cfgOpens = b] : b \in BOOLEAN}

\* __init__ was left by an exception raised after the configuration was loaded.
RaisedLate(op) ==
  /\ lastCall' = [op |-> op, pre |-> instance, ranInit |-> TRUE,
                  outcome |-> "Error", ret |-> 0]
  /\ UNCHANGED <<now, instance, created, ctx, original, pauseAt, pair>>

\* Context(...) with options o: the whole of __init__.
ConstructWith(o) ==
  /\ IF InitOutcome(o) = "Error" THEN RaisedLate("Context") ELSE Construct(o.cfgOpens)
  /\ setup' = [InitBody(o, CtorOutcome(o.cfgOpens)) EXCEPT !.by = "Context"]
  /\ UNCHANGED <<netVars, el, ic>>

\* Context.createInstance(...) with options o.
CreateInstanceWith(o) ==
  /\ IF ~HasInstance /\ InitOutcome(o) = "Error"
       THEN RaisedLate("createInstance")
       ELSE CreateInstance(o.cfgOpens)
  /\ setup' = IF HasInstance THEN setup
              ELSE [InitBody(o, CtorOutcome(o.cfgOpens)) EXCEPT !.by = "createInstance"]
  /\ UNCHANGED <<netVars, el, ic>>

\* =============================================================== image_client

\* image_client() before it starts. `reads` counts the read() calls issued,
\* `failed` tells whether one of them returned not-ok, `why` how the loop
\* was left.
IdleLoop == [pc |-> "start", reads |-> 0, failed |-> FALSE, why |-> "none"]

\* A loop that goes round again after a failed read.
AfterReadRetry(isOkay) == IF isOkay THEN "show" ELSE "loop"

\* Where the loop goes when imageClient.read() has returned:
\* `if not isOkay: break`, else on to the display.
AfterRead(isOkay) == IF isOkay THEN "show" ELSE "exit"

\* with ImageClient(...) as imageClient: the client is built, the scope entered.
LoopStart ==
  /\ ic.pc = "start"
  /\ ic' = [ic EXCEPT !.pc = "loop"]
  /\ UNCHANGED <<now, ctxVars, netVars, setup, el>>

\* isOkay, image = imageClient.read(): the call goes out to handler h.
LoopRead(h) ==
  /\ ic.pc = "loop"
  /\ ic.reads < MaxReads
  /\ ClientCall(h)
  /\ ic' = [ic EXCEPT !.pc = "reading", !.reads = @ + 1]
  /\ UNCHANGED <<ctxVars, dpc, exitWhy, setup, el>>

\* isOkay, image = imageClient.read(): the call goes out and reaches no handler.
LoopReadLost ==
  /\ ic.pc = "loop"
  /\ ic.reads < MaxReads
  /\ ClientCallLost
  /\ ic' = [ic EXCEPT !.pc = "reading", !.reads = @ + 1]
  /\ UNCHANGED <<ctxVars, dpc, exitWhy, setup, el>>

\* Handler h returns. If the loop's read() waits for it, read() returns and
\* the loop tests isOkay; a handler whose caller gave up returns to nobody.
LoopReply(h) ==
  /\ ClientReply(h)
  /\ ic' = IF ic.pc = "reading" /\ cl.pc = "calling" /\ cl.via = h
             THEN [ic EXCEPT !.pc = AfterRead(cl'.ok),
                             !.failed = @ \/ ~cl'.ok,
                             !.why = IF cl'.ok THEN @ ELSE "failed"]
             ELSE ic
  /\ UNCHANGED <<ctxVars, dpc, exitWhy, setup, el>>

\* The call times out: read() returns (False, None) and the loop tests isOkay.
LoopTimeout ==
  /\ ic.pc = "reading"
  /\ ClientTimeout
  /\ ic' = [ic EXCEPT !.pc = AfterRead(cl'.ok),
                      !.failed = @ \/ ~cl'.ok,
                      !.why = IF cl'.ok THEN @ ELSE "failed"]
  /\ UNCHANGED <<ctxVars, dpc, exitWhy, setup, el>>

\* After a good read: with gui the frame is shown and a key awaited, Esc
\* breaks; an exception of the display leaves the function through the scope.
LoopShow(gui, key) ==
  /\ ic.pc = "show"
  /\ key # "none" => gui
  /\ ic' = IF key = "esc" THEN [ic EXCEPT !.pc = "exit", !.why = "escape"]
           ELSE IF key = "error" THEN [ic EXCEPT !.pc = "exit", !.why = "error"]
           ELSE [ic EXCEPT !.pc = "loop"]
  /\ UNCHANGED <<now, ctxVars, netVars, setup, el>>

\* except KeyboardInterrupt: break, anywhere inside the try block; a call in
\* flight is abandoned.
LoopInterrupt ==
  /\ ic.pc \in {"loop", "reading", "show"}
  /\ ic' = [ic EXCEPT !.pc = "exit", !.why = "interrupt"]
  /\ cl' = IF cl.pc = "calling" THEN [cl EXCEPT !.pc = "idle", !.via = "none"] ELSE cl
  /\ UNCHANGED <<now, ctxVars, srvVars, dpc, exitWhy, setup, el>>

\* The scope is left (the client's __exit__) and, unless an exception is on
\* its way out, "Done." is logged and image_client() returns.
LoopExit ==
  /\ ic.pc = "exit"
  /\ ic' = [ic EXCEPT !.pc = IF ic.why = "error" THEN "raised" ELSE "done"]
  /\ UNCHANGED <<now, ctxVars, netVars, setup, el>>

Init ==
  /\ now = 0
  /\ instance = 0
  /\ created = 0
  /\ ctx = [i \in CtxIds |-> NoCtx]
  /\ lastCall = NoCall
  /\ original = 0
  /\ pauseAt = 0
  /\ pair = NoPair
  /\ built = FALSE
  /\ image = 0
  /\ isFresh = FALSE
  /\ transport = "off"
  /\ serialized \in BOOLEAN
  /\ rd = [h \in Handlers |-> IdleRead]
  /\ mpc = "idle"
  /\ stopCalls = 0
  /\ lastWrite = 0
  /\ resolved = "never"
  /\ stopDone = FALSE
  /\ lastRead = NoRead
  /\ dpc = "start"
  /\ exitWhy = "none"
  /\ cl = IdleClient
  /\ setup = NoSetup
  /\ el = NoLogger
  /\ ic = IdleLoop

NextSingleton ==
  \/ \E cfgOpens \in BOOLEAN : Construct(cfgOpens) /\ UNCHANGED <<netVars, extVars>>
  \/ \E cfgOpens \in BOOLEAN : CreateInstance(cfgOpens) /\ UNCHANGED <<netVars, extVars>>
  \/ GetInstance /\ UNCHANGED <<netVars, extVars>>
  \/ Tick /\ UNCHANGED <<netVars, extVars>>

SpecSingleton == Init /\ [][NextSingleton]_vars

\* An EventLogger in the hands of any owner and of the transport's handler.
NextLogger ==
  \/ \E rpc_export, start_server, openOk, exportOk, startOk \in BOOLEAN :
       LoggerInit(rpc_export, start_server, openOk, exportOk, startOk)
  \/ \E tag, msg \in Texts : Log(tag, msg)
  \/ LoggerFlush
  \/ \E stop_server \in BOOLEAN : LoggerStop(stop_server)
  \/ Tick /\ UNCHANGED <<netVars, extVars>>

SpecLogger == Init /\ [][NextLogger]_vars

\* The hosting program constructs its Context from any options, in any
\* state of the files it reads.
NextInit ==
  \/ \E o \in RunOptions : ConstructWith(o)
  \/ \E o \in RunOptions : CreateInstanceWith(o)
  \/ GetInstance /\ UNCHANGED <<netVars, extVars>>

SpecInit == Init /\ [][NextInit]_vars

\* The hosting program creates the Context and drives its clock.
NextTime ==
  \/ \E cfgOpens \in BOOLEAN : CreateInstance(cfgOpens) /\ UNCHANGED <<netVars, extVars>>
  \/ Tick /\ UNCHANGED <<netVars, extVars>>
  \/ ResetTime /\ UNCHANGED <<netVars, extVars>>
  \/ Update /\ UNCHANGED <<netVars, extVars>>
  \/ Pause /\ UNCHANGED <<netVars, extVars>>
  \/ Resume /\ UNCHANGED <<netVars, extVars>>

SpecTime == Init /\ [][NextTime]_vars

\* An ImageServer in the hands of any owner: it writes and stops in any order
\* while the transport's handler threads serve read() calls.
NextServer ==
  \/ \E start_server \in BOOLEAN :
       ServerInit(start_server) /\ UNCHANGED <<ctxVars, dpc, exitWhy, cl, extVars>>
  \/ \E img \in Images : Write(img) /\ UNCHANGED <<ctxVars, dpc, exitWhy, cl, extVars>>
  \/ StopBegin /\ UNCHANGED <<ctxVars, dpc, exitWhy, cl, extVars>>
  \/ StopFresh /\ UNCHANGED <<ctxVars, dpc, exitWhy, cl, extVars>>
  \/ StopHalt /\ UNCHANGED <<ctxVars, dpc, exitWhy, cl, extVars>>
  \/ \E h \in Handlers : ReadBegin(h) /\ UNCHANGED <<ctxVars, dpc, exitWhy, cl, extVars>>
  \/ \E h \in Handlers : ReadLoop(h) /\ UNCHANGED <<ctxVars, dpc, exitWhy, cl, extVars>>
  \/ \E h \in Handlers : ReadClear(h) /\ UNCHANGED <<ctxVars, dpc, exitWhy, cl, extVars>>
  \/ \E h \in Handlers : ReadReturn(h) /\ UNCHANGED <<ctxVars, dpc, exitWhy, cl, extVars>>
  \/ Elapse /\ UNCHANGED <<ctxVars, dpc, exitWhy, cl, extVars>>

SpecServer == Init /\ [][NextServer]_vars

\* image_server() feeding an ImageServer while the transport serves read() calls.
NextDriver ==
  \/ \E given, cfgOpens, start_server \in BOOLEAN : DriverStart(given, cfgOpens, start_server)
  \/ \E img \in Images : DriverWrite(img)
  \/ \E why \in {"exhausted", "interrupt", "error"} : DriverLeave(why)
  \/ DriverExit
  \/ StopFresh /\ UNCHANGED <<ctxVars, dpc, exitWhy, cl, extVars>>
  \/ StopHalt /\ UNCHANGED <<ctxVars, dpc, exitWhy, cl, extVars>>
  \/ DriverLeft
  \/ \E h \in Handlers : ReadBegin(h) /\ UNCHANGED <<ctxVars, dpc, exitWhy, cl, extVars>>
  \/ \E h \in Handlers : ReadLoop(h) /\ UNCHANGED <<ctxVars, dpc, exitWhy, cl, extVars>>
  \/ \E h \in Handlers : ReadClear(h) /\ UNCHANGED <<ctxVars, dpc, exitWhy, cl, extVars>>
  \/ \E h \in Handlers : ReadReturn(h) /\ UNCHANGED <<ctxVars, dpc, exitWhy, cl, extVars>>
  \/ Elapse /\ UNCHANGED <<ctxVars, dpc, exitWhy, cl, extVars>>

SpecDriver == Init /\ [][NextDriver]_vars

\* An ImageClient polling an ImageServer that its owner writes to and stops.
NextClient ==
  \/ \E start_server \in BOOLEAN :
       ServerInit(start_server) /\ UNCHANGED <<ctxVars, dpc, exitWhy, cl, extVars>>
  \/ \E img \in Images : Write(img) /\ UNCHANGED <<ctxVars, dpc, exitWhy, cl, extVars>>
  \/ StopBegin /\ UNCHANGED <<ctxVars, dpc, exitWhy, cl, extVars>>
  \/ StopFresh /\ UNCHANGED <<ctxVars, dpc, exitWhy, cl, extVars>>
  \/ StopHalt /\ UNCHANGED <<ctxVars, dpc, exitWhy, cl, extVars>>
  \/ \E h \in Handlers : ClientCall(h) /\ UNCHANGED <<ctxVars, dpc, exitWhy, extVars>>
  \/ ClientCallLost /\ UNCHANGED <<ctxVars, dpc, exitWhy, extVars>>
  \/ \E h \in Handlers : ReadLoop(h) /\ UNCHANGED <<ctxVars, dpc, exitWhy, cl, extVars>>
  \/ \E h \in Handlers : ReadClear(h) /\ UNCHANGED <<ctxVars, dpc, exitWhy, cl, extVars>>
  \/ \E h \in Handlers : ClientReply(h) /\ UNCHANGED <<ctxVars, dpc, exitWhy, extVars>>
  \/ ClientTimeout /\ UNCHANGED <<ctxVars, dpc, exitWhy, extVars>>
  \/ Elapse /\ UNCHANGED <<ctxVars, dpc, exitWhy, cl, extVars>>

SpecClient == Init /\ [][NextClient]_vars

\* image_client() polling an ImageServer that its owner writes to and stops.
NextLoop ==
  \/ \E start_server \in BOOLEAN :
       ServerInit(start_server) /\ UNCHANGED <<ctxVars, dpc, exitWhy, cl, extVars>>
  \/ \E img \in Images : Write(img) /\ UNCHANGED <<ctxVars, dpc, exitWhy, cl, extVars>>
  \/ StopBegin /\ UNCHANGED <<ctxVars, dpc, exitWhy, cl, extVars>>
  \/ StopFresh /\ UNCHANGED <<ctxVars, dpc, exitWhy, cl, extVars>>
  \/ StopHalt /\ UNCHANGED <<ctxVars, dpc, exitWhy, cl, extVars>>
  \/ LoopStart
  \/ \E h \in Handlers : LoopRead(h)
  \/ LoopReadLost
  \/ \E h \in Handlers : ReadLoop(h) /\ UNCHANGED <<ctxVars, dpc, exitWhy, cl, extVars>>
  \/ \E h \in Handlers : ReadClear(h) /\ UNCHANGED <<ctxVars, dpc, exitWhy, cl, extVars>>
  \/ \E h \in Handlers : LoopReply(h)
  \/ LoopTimeout
  \/ \E gui \in BOOLEAN : \E key \in {"none", "other", "esc", "error"} : LoopShow(gui, key)
  \/ LoopInterrupt
  \/ LoopExit
  \/ Elapse /\ UNCHANGED <<ctxVars, dpc, exitWhy, cl, extVars>>

SpecLoop == Init /\ [][NextLoop]_vars

\* An ImageServer that is written to and read but not stopped, with time
\* passing and every handler thread scheduled.
NextFirstRead ==
  \/ \E start_server \in BOOLEAN :
       ServerInit(start_server) /\ UNCHANGED <<ctxVars, dpc, exitWhy, cl, extVars>>
  \/ \E img \in Images : Write(img) /\ UNCHANGED <<ctxVars, dpc, exitWhy, cl, extVars>>
  \/ \E h \in Handlers : ReadBegin(h) /\ UNCHANGED <<ctxVars, dpc, exitWhy, cl, extVars>>
  \/ \E h \in Handlers : ReadLoop(h) /\ UNCHANGED <<ctxVars, dpc, exitWhy, cl, extVars>>
  \/ \E h \in Handlers : ReadClear(h) /\ UNCHANGED <<ctxVars, dpc, exitWhy, cl, extVars>>
  \/ \E h \in Handlers : ReadReturn(h) /\ UNCHANGED <<ctxVars, dpc, exitWhy, cl, extVars>>
  \/ Elapse /\ UNCHANGED <<ctxVars, dpc, exitWhy, cl, extVars>>

FairFirstRead ==
  /\ Init
  /\ [][NextFirstRead]_vars
  /\ WF_vars(Elapse /\ UNCHANGED <<ctxVars, dpc, exitWhy, cl, extVars>>)
  /\ \A h \in Handlers : WF_vars(ReadStep(h) /\ UNCHANGED <<ctxVars, dpc, exitWhy, cl, extVars>>)

\* How many Context objects existed before the last call.
CreatedBefore ==
  IF lastCall.ranInit /\ lastCall.outcome = "ok" THEN created - 1 ELSE created

\* C1: at most one Context object is ever successfully constructed, and once
\* one construction has succeeded every later direct constructor call fails
\* (with the singleton-violation error when its configuration file opens).
C1_AtMostOneContext ==
  /\ created <= 1
  /\ (lastCall.op = "Context" /\ CreatedBefore >= 1) => lastCall.outcome # "ok"

\* C2: createInstance() runs the constructor only when no instance is
\* registered; a createInstance() made after a successful one does not fail,
\* does not run the constructor again, returns the original object and leaves
\* it registered.
C2_CreateInstanceReturnsOriginal ==
  /\ (lastCall.op = "createInstance" /\ lastCall.ranInit) => lastCall.pre = 0
  /\ original # 0 => instance = original
  /\ (lastCall.op = "createInstance" /\ lastCall.pre # 0)
       => /\ lastCall.outcome = "ok"
          /\ ~lastCall.ranInit
          /\ lastCall.ret = original
          /\ lastCall.pre = original

\* C2's case: a createInstance() that found the original already registered.
C2_Witness ==
  /\ lastCall.op = "createInstance"
  /\ lastCall.pre # 0
  /\ lastCall.ret = original
  /\ created >= 1


\* C6: for a Context that is not paused, update(); pause() at one clock value
\* and later resume(); update() at one clock value measure the same elapsed
\* time: the paused interval is not counted.
C6_PauseResumeKeepsElapsed ==
  pair.stage = "measured" => pair.after = pair.before

\* C6's case: the pair was measured, and the clock advanced during the pause.
C6_Witness ==
  /\ pair.stage = "measured"
  /\ pair.r > pair.p
  /\ pair.before > 0

\* C7: while isPaused is true, update() leaves timeNow at the value it had
\* when pause() was called.
C7_UpdateFrozenWhilePaused ==
  (HasInstance /\ ctx[instance].isPaused /\ lastCall.op = "update")
    => ctx[instance].timeNow = pauseAt


\* ------------------------------------------------------------ ImageServer

\* Handler h enters read() in this step.
Enters(h) == rd[h].pc = "idle" /\ rd'[h].pc # "idle"

\* Handler h returns from read() in this step.
Returns(h) == rd[h].pc = "ret" /\ rd'[h].pc = "idle"

\* Handler h leaves the wait loop of read() in this step.
LeavesWait(h) == rd[h].pc \in {"loop", "sleep"} /\ rd'[h].pc = "clear"

C4_LatestWriteNoWait ==
  [][ \A h \in Handlers :
        (Returns(h) /\ rd[h].clean)
          => /\ lastRead'.reply = lastWrite
             /\ lastWrite \in Images
             /\ ~rd[h].waited
    ]_vars

\* C4's case: the first read() of a server that already holds a written frame
\* has passed the wait loop without sleeping.
C4_Witness ==
  \E h \in Handlers :
    /\ rd[h].pc = "clear"
    /\ rd[h].clean
    /\ ~rd[h].waited
    /\ image = lastWrite
    /\ image \in Images

\* C5: a read() that is in the wait loop leaves it and returns; it leaves the
\* loop with no frame stored only when max_wait_duration has elapsed, and with
\* no write() (and no stop()) ever made it returns the absent sentinel.
C5_FirstReadTerminates ==
  /\ \A h \in Handlers : (rd[h].pc \in {"loop", "sleep"}) ~> (rd[h].pc = "idle")
  /\ [][ \A h \in Handlers :
            /\ (LeavesWait(h) /\ image = 0)
                 => now - rd[h].waitStarted >= max_wait_duration
            /\ (Returns(h) /\ lastWrite = 0 /\ stopCalls = 0) => lastRead'.reply = 0
        ]_vars

\* C5's case: with no write() and no stop() ever made, a read() has returned
\* the absent sentinel after the full wait.
C5_Witness ==
  /\ lastRead.h # "none"
  /\ lastRead.reply = 0
  /\ lastWrite = 0
  /\ stopCalls = 0
  /\ now >= max_wait_duration

\* C8: once stop() has completed and until a write() follows, the stored
\* frame is the absent sentinel and the transport has been asked to halt; the
\* frame is cleared before the halt is requested; every read() that returns in
\* that period returns the absent sentinel.
C8_StopClears ==
  [][ /\ stopDone => (image = 0 /\ transport = "halt_requested")
      /\ stopDone' => (image' = 0 /\ transport' = "halt_requested")
      /\ (transport' = "halt_requested" /\ mpc = "stop_halt" /\ mpc' = "idle") => image = 0
      /\ \A h \in Handlers : (Returns(h) /\ stopDone) => lastRead'.reply = 0
    ]_vars

\* C8's case: a frame was served before, stop() has completed, and a read()
\* is at its return.
C8_Witness ==
  /\ stopDone
  /\ lastRead.reply \in Images
  /\ \E h \in Handlers : rd[h].pc = "ret"


\* C9: image_server() never leaves the scope of its ImageServer without
\* stop(): however the loop is left (input exhausted, keyboard interrupt,
\* error), stop() is called exactly once, and completes, before the scope is left.
C9_ScopedTeardown ==
  /\ dpc \in {"loop", "exit"} => stopCalls = 0
  /\ dpc \in {"stopping", "left"} => stopCalls = 1
  /\ dpc = "left" => /\ exitWhy \in {"exhausted", "interrupt", "error"}
                     /\ mpc = "idle"
                     /\ stopDone
                     /\ transport = "halt_requested"

\* C9's case: the scope was left because of an error raised inside the loop.
C9_Witness ==
  /\ dpc = "left"
  /\ exitWhy = "error"
  /\ stopCalls = 1

\* C10: an ImageClient.read() that has returned issued exactly one remote
\* call; it returned (True, image) exactly when the reply was an image
\* payload, the image being the frame the server held when it replied, and
\* (False, None) for the absent sentinel or a timeout.
C10_ClientRead ==
  cl.done =>
    /\ cl.calls = 1
    /\ cl.ok <=> cl.reply.kind = "image"
    /\ cl.ok => (cl.img = cl.held /\ cl.img \in Images)
    /\ ~cl.ok => cl.img = 0

\* C10's case: a read() returned a frame the server had been given.
C10_Witness ==
  /\ cl.done
  /\ cl.ok
  /\ cl.img \in Images

\* ------------------------------------------------------------ EventLogger

\* The line a log() call is to leave in the file: tag, timestamp and message
\* joined by the separator.
LineOf(c) == c.tag \o <<el.sep>> \o Stamp(c.t) \o <<el.sep>> \o c.msg

\* C11: on an EventLogger whose file was opened, the lines of the output are,
\* in call order, one line (tag, timestamp, msg joined by the separator) per
\* log() call made; after stop() the stream is closed, nothing is left in
\* its buffer and the file holds exactly those lines.
C11_OneLinePerCall ==
  (el.built /\ el.out # "unset") =>
    /\ Lines(el.disk \o el.pending) = [i \in 1..Len(el.calls) |-> LineOf(el.calls[i])]
    /\ el.stops > 0 =>
         /\ el.out = "closed"
         /\ el.pending = <<>>
         /\ Lines(el.disk) = [i \in 1..Len(el.calls) |-> LineOf(el.calls[i])]

\* -------------------------------------------------------- Context.__init__

\* How many of the four classification flags are set.
FlagCount(f) ==
  (IF f.isDir THEN 1 ELSE 0) + (IF f.isImage THEN 1 ELSE 0)
    + (IF f.isVideo THEN 1 ELSE 0) + (IF f.isRemote THEN 1 ELSE 0)

\* The input source resolves to no kind of input: a device index, or a
\* string that is no endpoint and names nothing, or a file of no known type.
Unresolved(src) ==
  \/ src.int
  \/ src.endpoint = 0 /\ src.at = "nothing"
  \/ src.endpoint = 0 /\ src.at = "file" /\ ~src.img /\ ~src.vid

\* C12: after a construction whose configuration was loaded, at most one of
\* isDir, isImage, isVideo, isRemote is true; when the source is a device
\* index, a nonexistent path or a file of unrecognized type, all four are
\* false and construction completed without raising.
C12_FlagsExclusive ==
  (setup.reached \notin {"none", "singleton", "config"}) =>
    /\ FlagCount(setup.flags) <= 1
    /\ Unresolved(setup.o.src) =>
         /\ FlagCount(setup.flags) = 0
         /\ setup.reached = "end"
         /\ ~setup.raised
         /\ lastCall.ranInit => lastCall.outcome = "ok"

\* C12's case: a name with an image extension that is no endpoint and names
\* nothing was classified: a warning, no flag, and the object constructed.
C12_Witness ==
  /\ setup.reached = "end"
  /\ lastCall.ranInit /\ lastCall.outcome = "ok"
  /\ ~setup.o.src.int /\ setup.o.src.endpoint = 0
  /\ setup.o.src.at = "nothing" /\ setup.o.src.img
  /\ setup.flags.warned
  /\ FlagCount(setup.flags) = 0

\* C13: classification takes the first match in the order device index,
\* network endpoint, filesystem path. A string int() accepts is a device and
\* nothing else is tested or set, whatever isRemote() would say and whatever
\* exists under that name; a string int() rejects and isRemote() recognises
\* sets isRemote and the parsed endpoint and no filesystem call is made; only
\* the remaining strings reach the filesystem.
C13_FirstMatchWins ==
  (setup.reached = "end") =>
    LET src == setup.o.src
        f == setup.flags IN
    /\ src.int =>
         /\ f.as = "device"
         /\ FlagCount(f) = 0 /\ f.remoteEndpoint = 0
         /\ f.fsCalls = {} /\ ~f.warned
    /\ (~src.int /\ src.endpoint # 0) =>
         /\ f.as = "endpoint"
         /\ f.isRemote /\ f.remoteEndpoint = src.endpoint
         /\ ~f.isDir /\ ~f.isImage /\ ~f.isVideo
         /\ f.fsCalls = {} /\ ~f.warned
    /\ (~src.int /\ src.endpoint = 0) =>
         /\ f.as = "path"
         /\ {"abspath", "exists"} \subseteq f.fsCalls

\* C13's case: the source parses as an integer, isRemote() would accept it
\* too and a directory of that name exists; it was taken as a device index.
C13_Witness ==
  /\ setup.reached = "end"
  /\ lastCall.ranInit
  /\ setup.o.src.int /\ setup.o.src.endpoint # 0 /\ setup.o.src.at = "dir"
  /\ setup.flags.as = "device"

\* C14: while no Context has been created, no instance is registered and
\* getInstance() fails with the not-initialized error; a createInstance()
\* whose configuration file cannot be opened ends with the IOError of open(),
\* returns nothing and registers nothing, so that getInstance() still fails.
C14_NotInitialized ==
  /\ created = 0 => ~HasInstance
  /\ lastCall.op = "getInstance" =>
       /\ lastCall.outcome = "NotInitialized" <=> ~HasInstance
       /\ created = 0 => (lastCall.outcome = "NotInitialized" /\ lastCall.ret = 0)
  /\ (lastCall.op = "createInstance" /\ lastCall.ranInit /\ ~setup.o.cfgOpens) =>
       /\ lastCall.outcome = "IOError"
       /\ lastCall.ret = 0
       /\ ~HasInstance
       /\ setup.reached = "config"
  /\ (setup.by = "createInstance" /\ setup.raised) => ~HasInstance

\* C14's case: createInstance() was aborted by the configuration file, no
\* Context exists, and the getInstance() that followed failed.
C14_Witness ==
  /\ setup.by = "createInstance"
  /\ setup.reached = "config"
  /\ created = 0
  /\ lastCall.op = "getInstance"
  /\ lastCall.outcome = "NotInitialized"

\* C15: whenever __init__ gets as far as setupLogging(), setupLogging()
\* returns and __init__ runs to its end, whatever the state of the logging
\* configuration; when the configuration cannot be opened, parsed, given its
\* file name or applied, the handler attached is the no-op handler; with
\* --log none the no-op handler is attached and the file is never opened.
C15_LoggingNeverFatal ==
  (setup.reached \notin {"none", "singleton", "config"}) =>
    /\ ~setup.log.raised
    /\ ~setup.raised
    /\ setup.reached = "end"
    /\ lastCall.ranInit => lastCall.outcome = "ok"
    /\ (setup.o.log_file # "none" /\ setup.o.logConfig # "ok") =>
         (setup.log.handler = "null" /\ setup.log.opened)
    /\ setup.o.log_file = "none" =>
         (setup.log.handler = "null" /\ ~setup.log.opened)
    /\ setup.log.handler = "configured" =>
         (setup.o.log_file # "none" /\ setup.o.logConfig = "ok")

\* C15's case: logging.yaml loads but dictConfig() rejects its target; the
\* Context was constructed with the no-op handler.
C15_Witness ==
  /\ setup.reached = "end"
  /\ lastCall.ranInit /\ lastCall.outcome = "ok"
  /\ setup.o.log_file = "auto"
  /\ setup.o.logConfig = "invalid_target"
  /\ setup.log.handler = "null"
  /\ created >= 1

\* C16: no EventLogger construction ends in an exception; on the instance
\* the constructor returned, serverStarted is true only if the file was
\* opened, the object exported and the server thread started, and it is
\* false whenever a failure was caught.
C16_CtorNeverRaises ==
  /\ el.last # "raised"
  /\ el.built =>
       /\ el.serverStarted => (el.out # "unset" /\ el.exported /\ el.started)
       /\ el.errorLogged => ~el.serverStarted
       /\ el.out = "unset" => (el.errorLogged /\ ~el.exported /\ ~el.started)

\* C16's case: the file was opened and the object exported, the server
\* thread failed to start; the constructor returned a logger that takes
\* log() calls and whose serverStarted is false.
C16_Witness ==
  /\ el.built
  /\ el.out = "open"
  /\ el.exported
  /\ el.errorLogged
  /\ ~el.serverStarted
  /\ el.last = "ok"
  /\ Len(el.calls) = 1

\* ------------------------------------------------- ImageServer, concurrency

\* Handler h is inside the wait of read(): at the loop test or asleep.
InWait(h) == rd[h].pc \in {"loop", "sleep"}

\* Handler h evaluates the loop test in this step.
Polls(h) == InWait(h) /\ now' = now /\ stopCalls' = stopCalls /\ rd'[h] # rd[h]

\* C17: while a read() is in its wait, write() is never held up; once a
\* write() has stored a frame and no stop() has followed, the next loop test
\* of the waiting read() leaves the wait, and a read() that waited returns the
\* latest written frame, never the absent sentinel.
C17_WriteEndsWait ==
  /\ [](\A h \in Handlers : \A img \in Images :
          (InWait(h) /\ mpc = "idle")
            => ENABLED (Write(img) /\ UNCHANGED <<ctxVars, dpc, exitWhy, cl, extVars>>))
  /\ [][ \A h \in Handlers :
           /\ (Polls(h) /\ lastWrite # 0) => rd'[h].pc = "clear"
           /\ (Returns(h) /\ rd[h].waited /\ lastWrite # 0)
                => (lastRead'.reply = lastWrite /\ lastRead'.reply \in Images)
       ]_vars

\* C17's case: a read() slept in the wait, a write() arrived before the
\* maximum wait was over, and the read() is at its return with that frame.
C17_Witness ==
  \E h \in Handlers :
    /\ rd[h].pc = "ret"
    /\ rd[h].waited
    /\ stopCalls = 0
    /\ now < max_wait_duration
    /\ image = lastWrite
    /\ image \in Images

\* C18: ImageServer itself never holds a read() back: when the transport
\* dispatches concurrently, an idle handler can enter read() whatever the
\* other handlers and stop() are in the middle of; when the transport
\* serializes calls, at most one read() is inside the wait loop.
C18_NoMutualExclusion ==
  /\ serialized => Cardinality({h \in Handlers : InWait(h)}) <= 1
  /\ \A h \in Handlers :
       (~serialized /\ built /\ rd[h].pc = "idle" /\ (isFresh => WaitFits))
         => ENABLED (ReadBegin(h) /\ UNCHANGED <<ctxVars, dpc, exitWhy, cl, extVars>>)

\* C18's case: handlers run concurrently, two read() calls are both inside
\* the wait loop of the same fresh server, and stop() is between its
\* statements: the frame is cleared, the flag set again, the transport not
\* yet halted.
C18_Witness ==
  /\ ~serialized
  /\ \A h \in Handlers : InWait(h)
  /\ isFresh
  /\ image = 0
  /\ mpc = "stop_halt"
  /\ transport # "halt_requested"

\* ------------------------------------------------------------ image_client

\* The client sends a call in this step.
Calls == cl.pc = "idle" /\ cl'.pc = "calling"

\* C19: in image_client(), once a read() has returned not-ok the loop has
\* been left for good: no further read() is issued, and control is on its
\* way out of the client's scope or past it, never back in the loop.
C19_NoRetryAfterFailure ==
  /\ [](ic.failed => (ic.pc \in {"exit", "done"} /\ ic.why = "failed"))
  /\ [][ /\ ic.failed => (~Calls /\ ic'.reads = ic.reads /\ ic'.failed)
         /\ (~ic.failed /\ ic'.failed) => (cl'.done /\ ~cl'.ok /\ ic'.pc = "exit")
         /\ (cl.pc = "calling" /\ cl'.done /\ cl'.pc = "idle" /\ ~cl'.ok) => ic'.failed
       ]_vars

\* C19's case: the first read() gave a frame, the second one failed, and
\* image_client() has returned.
C19_Witness ==
  /\ ic.failed
  /\ ic.reads = 2
  /\ ic.pc = "done"
  /\ cl.done /\ ~cl.ok

\* ------------------------------------------------------------ time control

\* C20: whatever resetTime(), update(), pause() and resume() calls were made
\* on the Context, in whatever order, its time origin timeStart is not later
\* than the clock and its timeNow is not negative.
C20_TimeNeverNegative ==
  HasInstance =>
    /\ ctx[instance].timeStart <= now
    /\ ctx[instance].timeNow >= 0

\* ------------------------------------------------------- EventLogger.stop

\* C21: on every instance the constructor returned, stop() (which is all
\* that __exit__ does) ends without an exception, also when the file could
\* not be opened; on an instance whose server thread was not started it
\* never asks the transport to halt.
C21_StopNeverRaises ==
  (el.built /\ el.stops > 0) =>
    /\ el.lastStop = "ok"
    /\ ~el.started => el.halts = 0

====
